---- MODULE Spec2Model ----
(***************************************************************************)
(* A model of Adafruit_IO/mqtt_client.py: the MQTTClient adapter around a  *)
(* paho-mqtt client.  The adapter's fields, the caller-facing methods and   *)
(* the three hooks the paho client invokes are modelled; the paho client is *)
(* the environment: it returns a code from connect() and fires the hooks.   *)
(* Strings that the code splits or formats are sequences of one-character   *)
(* strings; bytes are sequences of integers.                                *)
(***************************************************************************)
EXTENDS Integers, Sequences, FiniteSets, TLC

\* ---------------------------------------------------------------- bounds
\* Result codes the paho client hands to the hooks and returns from connect.
MaxRc == 2
\* Quality-of-service levels a caller passes to subscribe/publish.
MaxQos == 1

\* ------------------------------------------------------ program constants
KEEP_ALIVE_SEC == 3600
service_port == 1883
service_host == "io.adafruit.com"

\* Python's None and a present value.
None == <<>>
Some(x) == <<x>>

Rcs == 0..MaxRc
QosLevels == 0..MaxQos

\* The constructor's username argument.
username == <<"a">>
\* topic_fmt values a caller can construct the adapter with.
TopicFmts == {"adafruit_fmt", "rawmqtt_fmt", "other_fmt"}

\* Feed ids and values passed by the caller.
FeedIds == {<<"t">>, <<"x", "/", "y">>, <<>>}
Values == {<<"7", "2">>, <<>>}

\* Topics and payloads of the messages the paho client delivers.
feeds == <<"f", "e", "e", "d", "s">>
Topics ==
  { username \o <<"/">> \o feeds \o <<"/", "t">>,
    <<"b", "/">> \o feeds \o <<"/", "t">>,
    username \o <<"/">> \o feeds \o <<"/", "t", "/", "u">>,
    username \o <<"/">> \o feeds,
    username,
    <<"b">>,
    <<>> }
Payloads == {None, Some(<<>>), Some(<<55, 50>>), Some(<<255>>)}

VARIABLES
  connected,          \* self._connected
  disconnect_reason,  \* self._disconnect_reason
  on_connect,         \* self.on_connect    (None or a callback)
  on_disconnect,      \* self.on_disconnect
  on_message,         \* self.on_message
  topic_fmt,          \* self._topic_fmt
  op,                 \* the most recent operation and its inputs
  sent,               \* requests that operation forwarded to self._client
  called,             \* caller callbacks that operation invoked, in order
  raised,             \* the exception that operation raised, or None
  ret,                \* the value that operation returned, or None
  pre,                \* the connection state and history before that operation
  h_okSince,          \* history: a connect hook with rc 0 fired, no disconnect hook since
  h_lastDisc,         \* history: rc of the most recent disconnect hook, or None
  h_connectSince,     \* history: connect() was called, no disconnect()/disconnect hook since
  h_connectFailed,    \* history: the latest connect() raised, no hook has fired since
  h_discRaised,       \* history: the latest disconnect hook raised, no connect hook since
  h_phase             \* history: "requested" once connect() forwarded an accepted request,
                      \*          "noop" once a disconnect() then forwarded nothing,
                      \*          "idle" again when a connect or disconnect hook fires

vars == <<connected, disconnect_reason, on_connect, on_disconnect, on_message,
          topic_fmt, op, sent, called, raised, ret, pre,
          h_okSince, h_lastDisc, h_connectSince, h_connectFailed, h_discRaised, h_phase>>

callbacks == <<on_connect, on_disconnect, on_message>>
history == <<h_okSince, h_lastDisc, h_connectSince, h_connectFailed, h_discRaised, h_phase>>

\* ------------------------------------------------------------- __init__
Init ==
  /\ connected = FALSE
  /\ disconnect_reason = None
  /\ on_connect = None
  /\ on_disconnect = None
  /\ on_message = None
  /\ topic_fmt \in TopicFmts
  /\ op = [name |-> "__init__", args |-> <<>>]
  /\ sent = <<>>
  /\ called = <<>>
  /\ raised = None
  /\ ret = None
  /\ pre = [connected |-> FALSE, disconnect_reason |-> None,
            okSince |-> FALSE, connectSince |-> FALSE,
            connectFailed |-> FALSE, discRaised |-> FALSE, phase |-> "idle"]
  /\ h_okSince = FALSE
  /\ h_lastDisc = None
  /\ h_connectSince = FALSE
  /\ h_connectFailed = FALSE
  /\ h_discRaised = FALSE
  /\ h_phase = "idle"

\* The three exceptions the code raises, by their message.
ErrConnectHook == "RuntimeError: Error connecting to {0} with rc: {1}"
ErrDisconnectHook == "RuntimeError: Unexpected disconnect from {0} with rc: {1}"
ErrConnectCall == "RuntimeError: connect error {0} with rc: {1}"

\* What a handler leaves behind: the two fields, the requests it forwarded,
\* the callbacks it invoked, what it raised and what it returned.
Outcome(c, d, s, k, e, r) ==
  [connected |-> c, disconnect_reason |-> d, sent |-> s, called |-> k,
   raised |-> e, ret |-> r]

Snapshot ==
  [connected |-> connected, disconnect_reason |-> disconnect_reason,
   okSince |-> h_okSince, connectSince |-> h_connectSince, connectFailed |-> h_connectFailed,
   discRaised |-> h_discRaised, phase |-> h_phase]

\* Record a handler's outcome in the state.
Apply(name, args, out) ==
  /\ connected' = out.connected
  /\ disconnect_reason' = out.disconnect_reason
  /\ sent' = out.sent
  /\ called' = out.called
  /\ raised' = out.raised
  /\ ret' = out.ret
  /\ op' = [name |-> name, args |-> args]
  /\ pre' = Snapshot

\* ------------------------------------------------ hooks fired by paho
\* Variants of _mqtt_connect with a slip, used to test the properties below.
\* The flag is set before the result code is looked at.
mqtt_connect_flag_first(c, d, cb, rc) ==
  IF rc = 0
    THEN Outcome(TRUE, d, <<>>,
                 IF cb # None THEN <<[cb |-> "on_connect", args |-> <<"self">>]>> ELSE <<>>,
                 None, None)
    ELSE Outcome(TRUE, d, <<>>, <<>>, Some(ErrConnectHook), None)

\* The call of the on_connect callback is missing.
mqtt_connect_no_callback(c, d, cb, rc) ==
  IF rc = 0
    THEN Outcome(TRUE, d, <<>>, <<>>, None, None)
    ELSE Outcome(c, d, <<>>, <<>>, Some(ErrConnectHook), None)

\* A refused connection is logged instead of raised.
mqtt_connect_no_raise(c, d, cb, rc) ==
  IF rc = 0
    THEN Outcome(TRUE, d, <<>>,
                 IF cb # None THEN <<[cb |-> "on_connect", args |-> <<"self">>]>> ELSE <<>>,
                 None, None)
    ELSE Outcome(c, d, <<>>, <<>>, None, None)

\* A refused connection clears the flag.
mqtt_connect_refusal_resets(c, d, cb, rc) ==
  IF rc = 0
    THEN Outcome(TRUE, d, <<>>,
                 IF cb # None THEN <<[cb |-> "on_connect", args |-> <<"self">>]>> ELSE <<>>,
                 None, None)
    ELSE Outcome(FALSE, d, <<>>, <<>>, Some(ErrConnectHook), None)

\* A successful connect clears the recorded disconnect reason.
mqtt_connect_clears_reason(c, d, cb, rc) ==
  IF rc = 0
    THEN Outcome(TRUE, None, <<>>,
                 IF cb # None THEN <<[cb |-> "on_connect", args |-> <<"self">>]>> ELSE <<>>,
                 None, None)
    ELSE Outcome(c, d, <<>>, <<>>, Some(ErrConnectHook), None)

\* _mqtt_connect(client, userdata, flags, rc)
mqtt_connect(c, d, cb, rc) ==
  IF rc = 0
    THEN Outcome(TRUE, d, <<>>,
                 IF cb # None THEN <<[cb |-> "on_connect", args |-> <<"self">>]>> ELSE <<>>,
                 None, None)
    ELSE Outcome(c, d, <<>>, <<>>, Some(ErrConnectHook), None)

\* Variants of _mqtt_disconnect with a slip.
\* The raise tests only for a missing callback, not for the code.
mqtt_disconnect_raise_any_code(c, d, cb, rc) ==
  IF cb = None
    THEN Outcome(FALSE, Some(rc), <<>>, <<>>, Some(ErrDisconnectHook), None)
    ELSE Outcome(FALSE, Some(rc), <<>>,
                 <<[cb |-> "on_disconnect", args |-> <<"self">>]>>, None, None)

\* The raise tests only for the code, not for a missing callback.
mqtt_disconnect_raise_any_callback(c, d, cb, rc) ==
  IF rc # 0
    THEN Outcome(FALSE, Some(rc), <<>>, <<>>, Some(ErrDisconnectHook), None)
    ELSE Outcome(FALSE, Some(rc), <<>>,
                 IF cb # None THEN <<[cb |-> "on_disconnect", args |-> <<"self">>]>> ELSE <<>>,
                 None, None)

\* The raise comes before the two assignments.
mqtt_disconnect_raise_first(c, d, cb, rc) ==
  IF rc # 0 /\ cb = None
    THEN Outcome(c, d, <<>>, <<>>, Some(ErrDisconnectHook), None)
    ELSE Outcome(FALSE, Some(rc), <<>>,
                 IF cb # None THEN <<[cb |-> "on_disconnect", args |-> <<"self">>]>> ELSE <<>>,
                 None, None)

\* _mqtt_disconnect(client, userdata, rc)
mqtt_disconnect(c, d, cb, rc) ==
  IF rc # 0 /\ cb = None
    THEN Outcome(FALSE, Some(rc), <<>>, <<>>, Some(ErrDisconnectHook), None)
    ELSE Outcome(FALSE, Some(rc), <<>>,
                 IF cb # None THEN <<[cb |-> "on_disconnect", args |-> <<"self">>]>> ELSE <<>>,
                 None, None)

\* ---------------------------------------------- caller-facing methods
\* The request connect() forwards: self._client.connect(host, port=, keepalive=).
ConnectRequest ==
  [req |-> "connect", host |-> service_host, port |-> service_port,
   keepalive |-> KEEP_ALIVE_SEC]

\* Variants of connect with a slip.
\* The "already connected" test is missing.
connect_always(c, d, rc) ==
  Outcome(c, d, <<ConnectRequest>>, <<>>,
          IF rc # 0 THEN Some(ErrConnectCall) ELSE None, None)

\* The flag is set as soon as the request is forwarded.
connect_marks_connected(c, d, rc) ==
  IF c
    THEN Outcome(c, d, <<>>, <<>>, None, None)
    ELSE Outcome(TRUE, d, <<ConnectRequest>>, <<>>,
                 IF rc # 0 THEN Some(ErrConnectCall) ELSE None, None)

\* connect(**kwargs); rc is what self._client.connect returns.
connect(c, d, rc) ==
  IF c
    THEN Outcome(c, d, <<>>, <<>>, None, None)
    ELSE Outcome(c, d, <<ConnectRequest>>, <<>>,
                 IF rc # 0 THEN Some(ErrConnectCall) ELSE None, None)

\* is_connected()
is_connected(c, d) == Outcome(c, d, <<>>, <<>>, None, Some(c))

\* Variants of disconnect with a slip.
\* The "if connected" test is missing.
disconnect_always(c, d) ==
  Outcome(c, d, <<[req |-> "disconnect"]>>, <<>>, None, None)

\* The flag is cleared by disconnect() itself.
disconnect_clears_flag(c, d) ==
  Outcome(FALSE, d, IF c THEN <<[req |-> "disconnect"]>> ELSE <<>>, <<>>, None, None)

\* disconnect()
disconnect(c, d) ==
  Outcome(c, d, IF c THEN <<[req |-> "disconnect"]>> ELSE <<>>, <<>>, None, None)

\* disconnect_reason (property)
get_disconnect_reason(c, d) == Outcome(c, d, <<>>, <<>>, None, Some(d))

\* loop_background()
loop_background(c, d) == Outcome(c, d, <<[req |-> "loop_start"]>>, <<>>, None, None)

\* loop_blocking()
loop_blocking(c, d) == Outcome(c, d, <<[req |-> "loop_forever"]>>, <<>>, None, None)

\* loop(timeout_sec)
loop(c, d, timeout_sec) ==
  Outcome(c, d, <<[req |-> "loop", timeout |-> timeout_sec]>>, <<>>, None, None)

\* tls_set(*args, **kwargs)
tls_set(c, d, a) == Outcome(c, d, <<[req |-> "tls_set", args |-> a]>>, <<>>, None, None)

\* '{0}/feeds/{1}'.format(self._username, feed_id)
FeedTopic(user, feed_id) == user \o <<"/">> \o feeds \o <<"/">> \o feed_id

\* Variant of subscribe with a slip: the qos argument is not passed on.
subscribe_default_qos(c, d, fmt, feed_id, qos) ==
  Outcome(c, d,
          (IF fmt = "adafruit_fmt"
             THEN <<[req |-> "subscribe", topic |-> FeedTopic(username, feed_id), qos |-> 0]>>
             ELSE <<>>)
          \o (IF fmt = "rawmqtt_fmt"
                THEN <<[req |-> "subscribe", topic |-> feed_id, qos |-> 0]>>
                ELSE <<>>),
          <<>>, None, None)

\* subscribe(feed_id, qos)
subscribe(c, d, fmt, feed_id, qos) ==
  Outcome(c, d,
          (IF fmt = "adafruit_fmt"
             THEN <<[req |-> "subscribe", topic |-> FeedTopic(username, feed_id), qos |-> qos]>>
             ELSE <<>>)
          \o (IF fmt = "rawmqtt_fmt"
                THEN <<[req |-> "subscribe", topic |-> feed_id, qos |-> qos]>>
                ELSE <<>>),
          <<>>, None, None)

\* Variants of publish with a slip.
\* The structured topic is used in every mode, and the raw one on top in raw mode.
publish_first_test_missing(c, d, fmt, feed_id, value, qos) ==
  Outcome(c, d,
          <<[req |-> "publish", topic |-> FeedTopic(username, feed_id),
             payload |-> value, qos |-> qos]>>
          \o (IF fmt = "rawmqtt_fmt"
                THEN <<[req |-> "publish", topic |-> feed_id, payload |-> value, qos |-> qos]>>
                ELSE <<>>),
          <<>>, None, None)

\* The second test is an else: every mode but the structured one is raw.
publish_else_raw(c, d, fmt, feed_id, value, qos) ==
  Outcome(c, d,
          IF fmt = "adafruit_fmt"
            THEN <<[req |-> "publish", topic |-> FeedTopic(username, feed_id),
                    payload |-> value, qos |-> qos]>>
            ELSE <<[req |-> "publish", topic |-> feed_id, payload |-> value, qos |-> qos]>>,
          <<>>, None, None)

\* publish(feed_id, value, qos)
publish(c, d, fmt, feed_id, value, qos) ==
  Outcome(c, d,
          (IF fmt = "adafruit_fmt"
             THEN <<[req |-> "publish", topic |-> FeedTopic(username, feed_id),
                     payload |-> value, qos |-> qos]>>
             ELSE <<>>)
          \o (IF fmt = "rawmqtt_fmt"
                THEN <<[req |-> "publish", topic |-> feed_id, payload |-> value, qos |-> qos]>>
                ELSE <<>>),
          <<>>, None, None)

\* str.split(sep): the segments between separators; never an empty list.
RECURSIVE SplitFrom(_, _, _, _)
SplitFrom(s, sep, i, cur) ==
  IF i > Len(s) THEN <<cur>>
  ELSE IF s[i] = sep THEN <<cur>> \o SplitFrom(s, sep, i + 1, <<>>)
  ELSE SplitFrom(s, sep, i + 1, Append(cur, s[i]))

Split(s, sep) == SplitFrom(s, sep, 1, <<>>)

\* bytes.decode('utf-8') on the payloads modelled: ASCII bytes map to their
\* characters, a byte that cannot start a UTF-8 sequence fails the decoding.
AsciiChar(b) ==
  CASE b = 50 -> "2"
    [] b = 55 -> "7"
    [] OTHER -> "?"

Decodable(bytes) == \A i \in 1..Len(bytes) : bytes[i] < 128

Decode(bytes) == [i \in 1..Len(bytes) |-> AsciiChar(bytes[i])]

\* '' if msg.payload is None else msg.payload.decode('utf-8')
PayloadDecodable(payload) == payload = None \/ Decodable(payload[1])
\* Variant with a slip: an absent payload is formatted, giving 'None'.
PayloadText_str_of_none(payload) ==
  IF payload = None THEN <<"N", "o", "n", "e">> ELSE Decode(payload[1])

PayloadText(payload) == IF payload = None THEN <<>> ELSE Decode(payload[1])

\* Variants of _mqtt_message with a slip.
\* The test commented out at line 97 is active: the raw dispatch is for raw mode only.
mqtt_message_raw_mode_test(c, d, fmt, cb, topic, payload) ==
  LET parsed_topic == Split(topic, "/")
      structured == fmt = "adafruit_fmt" /\ cb # None /\ username = parsed_topic[1]
      raw == fmt = "rawmqtt_fmt" /\ cb # None
      first == [cb |-> "on_message", args |-> <<"self", parsed_topic[3], PayloadText(payload)>>]
      second == [cb |-> "on_message", args |-> <<"self", topic, PayloadText(payload)>>]
  IN  IF structured /\ Len(parsed_topic) < 3
        THEN Outcome(c, d, <<>>, <<>>, Some("IndexError"), None)
      ELSE IF (structured \/ raw) /\ ~PayloadDecodable(payload)
        THEN Outcome(c, d, <<>>, <<>>, Some("UnicodeDecodeError"), None)
      ELSE Outcome(c, d, <<>>,
                   (IF structured THEN <<first>> ELSE <<>>)
                   \o (IF raw THEN <<second>> ELSE <<>>),
                   None, None)

\* The payload is decoded on entry, before any test for a callback.
mqtt_message_decode_first(c, d, fmt, cb, topic, payload) ==
  LET parsed_topic == Split(topic, "/")
      structured == fmt = "adafruit_fmt" /\ cb # None /\ username = parsed_topic[1]
      first == [cb |-> "on_message", args |-> <<"self", parsed_topic[3], PayloadText(payload)>>]
      second == [cb |-> "on_message", args |-> <<"self", topic, PayloadText(payload)>>]
  IN  IF ~PayloadDecodable(payload)
        THEN Outcome(c, d, <<>>, <<>>, Some("UnicodeDecodeError"), None)
      ELSE IF structured /\ Len(parsed_topic) < 3
        THEN Outcome(c, d, <<>>, <<>>, Some("IndexError"), None)
      ELSE Outcome(c, d, <<>>,
                   (IF structured THEN <<first>> ELSE <<>>)
                   \o (IF cb # None THEN <<second>> ELSE <<>>),
                   None, None)

\* _mqtt_message(client, userdata, msg)
mqtt_message(c, d, fmt, cb, topic, payload) ==
  LET parsed_topic == Split(topic, "/")
      structured == fmt = "adafruit_fmt" /\ cb # None /\ username = parsed_topic[1]
      first == [cb |-> "on_message", args |-> <<"self", parsed_topic[3], PayloadText(payload)>>]
      second == [cb |-> "on_message", args |-> <<"self", topic, PayloadText(payload)>>]
  IN  IF structured /\ Len(parsed_topic) < 3
        THEN Outcome(c, d, <<>>, <<>>, Some("IndexError"), None)
      ELSE IF cb # None /\ ~PayloadDecodable(payload)
        THEN Outcome(c, d, <<>>, <<>>, Some("UnicodeDecodeError"), None)
      ELSE Outcome(c, d, <<>>,
                   (IF structured THEN <<first>> ELSE <<>>)
                   \o (IF cb # None THEN <<second>> ELSE <<>>),
                   None, None)

\* ------------------------------------------------------------ actions
\* The caller assigns one of the three public callback attributes.
SetCallback ==
  /\ \E v \in {None, Some("callback")} :
       \/ on_connect' = v /\ UNCHANGED <<on_disconnect, on_message>>
            /\ Apply("set on_connect", <<v>>, Outcome(connected, disconnect_reason, <<>>, <<>>, None, None))
       \/ on_disconnect' = v /\ UNCHANGED <<on_connect, on_message>>
            /\ Apply("set on_disconnect", <<v>>, Outcome(connected, disconnect_reason, <<>>, <<>>, None, None))
       \/ on_message' = v /\ UNCHANGED <<on_connect, on_disconnect>>
            /\ Apply("set on_message", <<v>>, Outcome(connected, disconnect_reason, <<>>, <<>>, None, None))
  /\ UNCHANGED <<topic_fmt, history>>

\* The paho client fires the connect hook with result code rc.
MqttConnect ==
  \E rc \in Rcs :
    /\ Apply("_mqtt_connect", <<rc>>, mqtt_connect(connected, disconnect_reason, on_connect, rc))
    /\ h_okSince' = IF rc = 0 THEN TRUE ELSE h_okSince
    /\ h_connectFailed' = FALSE
    /\ h_discRaised' = FALSE
    /\ h_phase' = "idle"
    /\ UNCHANGED <<topic_fmt, callbacks, h_lastDisc, h_connectSince>>

\* The paho client fires the disconnect hook with result code rc.
MqttDisconnect ==
  \E rc \in Rcs :
    /\ Apply("_mqtt_disconnect", <<rc>>,
             mqtt_disconnect(connected, disconnect_reason, on_disconnect, rc))
    /\ h_okSince' = FALSE
    /\ h_lastDisc' = Some(rc)
    /\ h_connectSince' = FALSE
    /\ h_connectFailed' = FALSE
    /\ h_discRaised' = (raised' # None)
    /\ h_phase' = "idle"
    /\ UNCHANGED <<topic_fmt, callbacks>>

\* The paho client fires the message hook with a message.
MqttMessage ==
  \E topic \in Topics, payload \in Payloads :
    /\ Apply("_mqtt_message", <<topic, payload>>,
             mqtt_message(connected, disconnect_reason, topic_fmt, on_message, topic, payload))
    /\ UNCHANGED <<topic_fmt, callbacks, history>>

\* The caller calls connect(); the paho client's connect returns rc.
Connect ==
  \E rc \in Rcs :
    /\ Apply("connect", <<rc>>, connect(connected, disconnect_reason, rc))
    /\ h_connectSince' = TRUE
    /\ h_connectFailed' = (raised' # None)
    /\ h_phase' = IF sent' = <<>> THEN h_phase
                  ELSE IF raised' = None THEN "requested" ELSE "idle"
    /\ UNCHANGED <<topic_fmt, callbacks, h_okSince, h_lastDisc, h_discRaised>>

\* The caller calls disconnect().
Disconnect ==
  /\ Apply("disconnect", <<>>, disconnect(connected, disconnect_reason))
  /\ h_connectSince' = FALSE
  /\ h_phase' = IF h_phase = "requested" /\ sent' = <<>> THEN "noop" ELSE h_phase
  /\ UNCHANGED <<topic_fmt, callbacks, h_okSince, h_lastDisc, h_connectFailed, h_discRaised>>

\* The caller calls is_connected().
IsConnected ==
  /\ Apply("is_connected", <<>>, is_connected(connected, disconnect_reason))
  /\ UNCHANGED <<topic_fmt, callbacks, history>>

\* The caller reads the disconnect_reason property.
DisconnectReason ==
  /\ Apply("disconnect_reason", <<>>, get_disconnect_reason(connected, disconnect_reason))
  /\ UNCHANGED <<topic_fmt, callbacks, history>>

\* The caller calls one of the three loop operations.
LoopBackground ==
  /\ Apply("loop_background", <<>>, loop_background(connected, disconnect_reason))
  /\ UNCHANGED <<topic_fmt, callbacks, history>>

LoopBlocking ==
  /\ Apply("loop_blocking", <<>>, loop_blocking(connected, disconnect_reason))
  /\ UNCHANGED <<topic_fmt, callbacks, history>>

Loop ==
  \E timeout_sec \in {1, 5} :
    /\ Apply("loop", <<timeout_sec>>, loop(connected, disconnect_reason, timeout_sec))
    /\ UNCHANGED <<topic_fmt, callbacks, history>>

\* The caller calls tls_set(*args, **kwargs).
TlsSet ==
  \E a \in {<<>>, <<"ca.crt">>} :
    /\ Apply("tls_set", <<a>>, tls_set(connected, disconnect_reason, a))
    /\ UNCHANGED <<topic_fmt, callbacks, history>>

\* The caller calls subscribe(feed_id, qos).
Subscribe ==
  \E feed_id \in FeedIds, qos \in QosLevels :
    /\ Apply("subscribe", <<feed_id, qos>>,
             subscribe(connected, disconnect_reason, topic_fmt, feed_id, qos))
    /\ UNCHANGED <<topic_fmt, callbacks, history>>

\* The caller calls publish(feed_id, value, qos).
Publish ==
  \E feed_id \in FeedIds, value \in Values, qos \in QosLevels :
    /\ Apply("publish", <<feed_id, value, qos>>,
             publish(connected, disconnect_reason, topic_fmt, feed_id, value, qos))
    /\ UNCHANGED <<topic_fmt, callbacks, history>>

Next ==
  \/ SetCallback
  \/ MqttConnect
  \/ MqttDisconnect
  \/ MqttMessage
  \/ Connect
  \/ Disconnect
  \/ IsConnected
  \/ DisconnectReason
  \/ LoopBackground
  \/ LoopBlocking
  \/ Loop
  \/ TlsSet
  \/ Subscribe
  \/ Publish

Spec == Init /\ [][Next]_vars

TypeOK ==
  /\ connected \in BOOLEAN
  /\ disconnect_reason \in {None} \cup {Some(rc) : rc \in Rcs}
  /\ topic_fmt \in TopicFmts

\* ---------------------------------------------------------- properties
OnConnectCall == [cb |-> "on_connect", args |-> <<"self">>]
OnDisconnectCall == [cb |-> "on_disconnect", args |-> <<"self">>]

\* C1: is_connected() is true only if a connect hook with result code 0 has
\* fired and no disconnect hook has fired after it; it is false right after
\* construction.
C1_ConnectedOnlyBetweenHooks ==
  /\ connected => h_okSince
  /\ op.name = "is_connected" => (ret = Some(connected) /\ (ret = Some(TRUE) => h_okSince))
  /\ op.name = "__init__" => ~connected

\* A disconnect hook has ended a connection that a connect hook with code 0
\* had opened, and is_connected() then reports false.
C1_Witness ==
  /\ op.name = "is_connected"
  /\ ret = Some(FALSE)
  /\ h_lastDisc # None
  /\ ~h_okSince

\* C2 as stated: whenever connect() is called after an earlier connect() with
\* no disconnect() call and no disconnect hook in between, it forwards no
\* request, also when the connect hook has not fired in between.
C2_SecondConnectNeverForwards ==
  (op.name = "connect" /\ pre.connectSince) => sent = <<>>

\* C2 amended: the second of two connect() calls with no disconnect() call and
\* no disconnect hook in between forwards no request if a connect hook with
\* code 0 has fired (and no disconnect hook since) before it; otherwise, the
\* adapter not being marked connected yet, it forwards one more connect request.
C2_SecondConnectForwardsIffNotConnected ==
  (op.name = "connect" /\ pre.connectSince) =>
    /\ pre.okSince => sent = <<>> /\ raised = None
    /\ ~pre.okSince => sent = <<ConnectRequest>>

\* connect(), then a connect hook with code 0, then connect() again: nothing
\* is forwarded by the second call.
C2_Witness ==
  /\ op.name = "connect"
  /\ pre.connectSince
  /\ pre.okSince
  /\ sent = <<>>

\* C3: a connect hook with result code 0 makes is_connected() true, raises
\* nothing, and invokes the registered on_connect callback exactly once with
\* the adapter instance; with no callback registered nothing is invoked.
C3_ConnectHookSuccess ==
  (op.name = "_mqtt_connect" /\ op.args[1] = 0) =>
    /\ connected
    /\ raised = None
    /\ on_connect # None => called = <<OnConnectCall>>
    /\ on_connect = None => called = <<>>

\* A connect hook with code 0 has fired on a disconnected adapter that has an
\* on_connect callback.
C3_Witness ==
  /\ op.name = "_mqtt_connect"
  /\ op.args[1] = 0
  /\ ~pre.connected
  /\ on_connect # None
  /\ Len(called) = 1

\* C4: a connect hook with a nonzero code raises the connection error of the
\* hook, and an adapter that was not connected remains not connected.
C4_ConnectHookRefused ==
  (op.name = "_mqtt_connect" /\ op.args[1] # 0) =>
    /\ raised = Some(ErrConnectHook)
    /\ ~pre.connected => ~connected

\* A connect hook with a nonzero code has fired on a disconnected adapter.
C4_Witness ==
  /\ op.name = "_mqtt_connect"
  /\ op.args[1] # 0
  /\ ~pre.connected
  /\ ~connected
  /\ raised # None

\* C5: a disconnect hook with code 0 makes is_connected() false, sets
\* disconnect_reason to 0 and raises nothing, callback or not; a registered
\* on_disconnect callback is invoked exactly once with the adapter instance.
C5_DisconnectHookNormal ==
  (op.name = "_mqtt_disconnect" /\ op.args[1] = 0) =>
    /\ ~connected
    /\ disconnect_reason = Some(0)
    /\ raised = None
    /\ on_disconnect # None => called = <<OnDisconnectCall>>
    /\ on_disconnect = None => called = <<>>

\* A disconnect hook with code 0 has fired on a connected adapter with no
\* on_disconnect callback.
C5_Witness ==
  /\ op.name = "_mqtt_disconnect"
  /\ op.args[1] = 0
  /\ pre.connected
  /\ on_disconnect = None
  /\ ~connected

\* C6: a disconnect hook raises (the disconnect error) if and only if its
\* code is nonzero and no on_disconnect callback is registered; with a
\* callback registered and a nonzero code the callback is invoked exactly
\* once and nothing is raised.
C6_DisconnectHookAbnormal ==
  op.name = "_mqtt_disconnect" =>
    /\ raised # None <=> (op.args[1] # 0 /\ on_disconnect = None)
    /\ raised # None => raised = Some(ErrDisconnectHook) /\ called = <<>>
    /\ (op.args[1] # 0 /\ on_disconnect # None) => called = <<OnDisconnectCall>>

\* A disconnect hook with a nonzero code has fired with a callback
\* registered: the callback ran and nothing was raised.
C6_Witness ==
  /\ op.name = "_mqtt_disconnect"
  /\ op.args[1] # 0
  /\ on_disconnect # None
  /\ raised = None
  /\ Len(called) = 1

\* C7: disconnect_reason is None while no disconnect hook has fired, and
\* otherwise the code of the most recent disconnect hook; connect() calls,
\* connect hooks and message hooks never change it.
C7_ReasonIsLastDisconnectCode ==
  /\ disconnect_reason = h_lastDisc
  /\ op.name = "disconnect_reason" => ret = Some(h_lastDisc)
  /\ op.name \in {"connect", "_mqtt_connect", "_mqtt_message"} =>
       disconnect_reason = pre.disconnect_reason

\* After a disconnect hook with a nonzero code, a connect hook with code 0
\* has reconnected the adapter and the reason is still recorded.
C7_Witness ==
  /\ op.name = "_mqtt_connect"
  /\ op.args[1] = 0
  /\ connected
  /\ h_lastDisc # None
  /\ h_lastDisc # Some(0)
  /\ disconnect_reason = h_lastDisc

\* C8: disconnect() forwards a disconnect request only if the adapter is
\* marked connected and otherwise forwards nothing; a disconnect() between
\* connect() and the connect hook forwards nothing, and the connect hook with
\* code 0 that follows still marks the adapter connected.
C8_DisconnectOnlyWhenConnected ==
  /\ op.name = "disconnect" =>
       /\ pre.connected => sent = <<[req |-> "disconnect"]>>
       /\ ~pre.connected => sent = <<>>
       /\ raised = None
  /\ (op.name = "disconnect" /\ pre.phase = "requested") => sent = <<>>
  /\ (op.name = "_mqtt_connect" /\ op.args[1] = 0 /\ pre.phase = "noop") => connected

\* connect() forwarded a request, disconnect() then forwarded nothing, and
\* the connect hook with code 0 has now marked the adapter connected.
C8_Witness ==
  /\ op.name = "_mqtt_connect"
  /\ op.args[1] = 0
  /\ pre.phase = "noop"
  /\ connected

\* C9: only the connect hook and the disconnect hook change the connected
\* flag or the disconnect reason; every other operation leaves both as they
\* were, raising or not, and disconnect() leaves the flag set.
C9_OnlyHooksMutateConnectionState ==
  /\ op.name \notin {"__init__", "_mqtt_connect", "_mqtt_disconnect"} =>
       /\ connected = pre.connected
       /\ disconnect_reason = pre.disconnect_reason
  /\ (op.name = "disconnect" /\ pre.connected) => connected

\* disconnect() has forwarded a request on a connected adapter, whose flag is
\* still set.
C9_Witness ==
  /\ op.name = "disconnect"
  /\ pre.connected
  /\ sent # <<>>
  /\ connected

\* C10: connect() on an adapter not marked connected forwards exactly one
\* connect request; when the client returns a nonzero code connect() raises
\* the connection error of connect, the adapter stays not connected, and the
\* next connect() forwards a new connect request.
C10_ConnectForwardsAndFails ==
  /\ (op.name = "connect" /\ ~pre.connected) =>
       /\ sent = <<ConnectRequest>>
       /\ op.args[1] # 0 => raised = Some(ErrConnectCall) /\ ~connected
       /\ op.args[1] = 0 => raised = None
  /\ (op.name = "connect" /\ pre.connectFailed) => sent = <<ConnectRequest>>

\* A connect() has failed on a nonzero return code and the connect() after
\* it has forwarded a new request.
C10_Witness ==
  /\ op.name = "connect"
  /\ pre.connectFailed
  /\ ~pre.connected
  /\ sent = <<ConnectRequest>>

\* self.on_message(self, feed_or_topic, payload)
OnMessageCall(feed_or_topic, text) ==
  [cb |-> "on_message", args |-> <<"self", feed_or_topic, text>>]

\* C11: subscribe(f) forwards exactly one subscribe request, for topic
\* "{username}/feeds/{f}" in structured mode and for f itself in raw mode,
\* with the given QoS, whether the adapter is marked connected or not.
C11_SubscribeTopic ==
  op.name = "subscribe" =>
    /\ topic_fmt = "adafruit_fmt" =>
         sent = <<[req |-> "subscribe",
                   topic |-> username \o <<"/", "f", "e", "e", "d", "s", "/">> \o op.args[1],
                   qos |-> op.args[2]]>>
    /\ topic_fmt = "rawmqtt_fmt" =>
         sent = <<[req |-> "subscribe", topic |-> op.args[1], qos |-> op.args[2]]>>
    /\ raised = None

\* subscribe() with a nonzero QoS has forwarded its request on an adapter in
\* structured mode that is not marked connected.
C11_Witness ==
  /\ op.name = "subscribe"
  /\ topic_fmt = "adafruit_fmt"
  /\ ~connected
  /\ op.args[2] # 0
  /\ Len(sent) = 1

\* C12: publish(f, v) forwards exactly one publish request whose payload is v,
\* whose topic is "{username}/feeds/{f}" in structured mode and f itself in
\* raw mode, and whose QoS is the given one.
C12_PublishTopicAndPayload ==
  op.name = "publish" =>
    /\ topic_fmt = "adafruit_fmt" =>
         sent = <<[req |-> "publish",
                   topic |-> username \o <<"/", "f", "e", "e", "d", "s", "/">> \o op.args[1],
                   payload |-> op.args[2], qos |-> op.args[3]]>>
    /\ topic_fmt = "rawmqtt_fmt" =>
         sent = <<[req |-> "publish", topic |-> op.args[1],
                   payload |-> op.args[2], qos |-> op.args[3]]>>
    /\ raised = None

\* publish() of a feed id that contains a separator has forwarded the id
\* unchanged as the topic in raw mode.
C12_Witness ==
  /\ op.name = "publish"
  /\ topic_fmt = "rawmqtt_fmt"
  /\ op.args[1] = <<"x", "/", "y">>
  /\ Len(sent) = 1
  /\ sent[1].topic = <<"x", "/", "y">>

\* C13: in structured mode with an on_message callback, a message whose
\* payload decodes and whose topic has at least three segments, the first
\* being the username, invokes on_message exactly twice: with the third
\* segment as feed id, then with the raw topic, both with the decoded text.
\* When the first segment is not the username, on_message is invoked exactly
\* once, with the raw topic.
C13_StructuredDoubleDispatch ==
  (/\ op.name = "_mqtt_message"
   /\ topic_fmt = "adafruit_fmt"
   /\ on_message # None
   /\ PayloadDecodable(op.args[2])) =>
    LET topic == op.args[1]
        segs == Split(topic, "/")
        text == PayloadText(op.args[2])
    IN  /\ (Len(segs) >= 3 /\ segs[1] = username) =>
             /\ called = <<OnMessageCall(segs[3], text), OnMessageCall(topic, text)>>
             /\ raised = None
        /\ segs[1] # username =>
             /\ called = <<OnMessageCall(topic, text)>>
             /\ raised = None

\* The message "a/feeds/t" with payload "72" has been dispatched twice: as
\* feed "t" and as the raw topic.
C13_Witness ==
  /\ op.name = "_mqtt_message"
  /\ topic_fmt = "adafruit_fmt"
  /\ op.args[1] = <<"a", "/", "f", "e", "e", "d", "s", "/", "t">>
  /\ op.args[2] = Some(<<55, 50>>)
  /\ Len(called) = 2
  /\ called[1].args = <<"self", <<"t">>, <<"7", "2">> >>
  /\ called[2].args = <<"self", op.args[1], <<"7", "2">> >>

\* The topic is one the structured parsing fails on: its first segment is the
\* username and it has fewer than three segments.
ShortOwnTopic(topic) ==
  /\ topic_fmt = "adafruit_fmt"
  /\ Split(topic, "/")[1] = username
  /\ Len(Split(topic, "/")) < 3

\* C14 as stated: for every message hook, whatever the mode and the shape of
\* the topic, a registered on_message is invoked with the raw topic and the
\* decoded text (the only invocation in raw mode); with no callback nothing
\* is invoked and nothing is raised.
C14_RawDispatchForEveryTopic ==
  op.name = "_mqtt_message" =>
    /\ (on_message # None /\ PayloadDecodable(op.args[2])) =>
         /\ called # <<>>
         /\ called[Len(called)] = OnMessageCall(op.args[1], PayloadText(op.args[2]))
         /\ topic_fmt = "rawmqtt_fmt" => Len(called) = 1
    /\ on_message = None => (called = <<>> /\ raised = None)

\* C14 amended: the same, except for a topic in structured mode whose first
\* segment is the username and which has fewer than three segments: with a
\* callback registered that message raises an IndexError and on_message is
\* not invoked at all.
C14_RawDispatchUnlessShortOwnTopic ==
  op.name = "_mqtt_message" =>
    /\ (on_message # None /\ PayloadDecodable(op.args[2]) /\ ~ShortOwnTopic(op.args[1])) =>
         /\ called # <<>>
         /\ called[Len(called)] = OnMessageCall(op.args[1], PayloadText(op.args[2]))
         /\ topic_fmt = "rawmqtt_fmt" => Len(called) = 1
         /\ raised = None
    /\ (on_message # None /\ ShortOwnTopic(op.args[1])) =>
         (called = <<>> /\ raised = Some("IndexError"))
    /\ on_message = None => (called = <<>> /\ raised = None)

\* A message in raw mode has been dispatched once, with its raw topic.
C14_Witness ==
  /\ op.name = "_mqtt_message"
  /\ topic_fmt = "rawmqtt_fmt"
  /\ on_message # None
  /\ op.args[2] = Some(<<55, 50>>)
  /\ called = <<OnMessageCall(op.args[1], <<"7", "2">>)>>

\* C15: a message with an absent payload reaches every on_message invocation
\* it triggers as the empty string, and the absent payload makes nothing fail
\* (the only failure left is the one of a short topic).
C15_AbsentPayloadIsEmptyText ==
  (op.name = "_mqtt_message" /\ op.args[2] = None) =>
    /\ \A i \in 1..Len(called) : called[i].args[3] = <<>>
    /\ raised # None => (on_message # None /\ ShortOwnTopic(op.args[1]))
    /\ (on_message # None /\ ~ShortOwnTopic(op.args[1])) => called # <<>>

\* A message with an absent payload has been dispatched in both forms.
C15_Witness ==
  /\ op.name = "_mqtt_message"
  /\ op.args[2] = None
  /\ Len(called) = 2
  /\ called[1].args[3] = <<>>
  /\ called[2].args[3] = <<>>

\* C16: a disconnect hook that raises (nonzero code, no on_disconnect
\* callback) has already cleared the flag and recorded the code, and the
\* connect() that follows forwards a new connect request.
C16_DisconnectStateSetBeforeRaise ==
  /\ (op.name = "_mqtt_disconnect" /\ raised # None) =>
       /\ ~connected
       /\ disconnect_reason = Some(op.args[1])
       /\ op.args[1] # 0
  /\ (op.name = "connect" /\ pre.discRaised) =>
       /\ ~pre.connected
       /\ sent = <<ConnectRequest>>
  /\ (op.name = "is_connected" /\ pre.discRaised) => ret = Some(FALSE)

\* A connected adapter's disconnect hook has raised, and the connect() after
\* it has forwarded a request.
C16_Witness ==
  /\ op.name = "connect"
  /\ pre.discRaised
  /\ pre.disconnect_reason # None
  /\ pre.disconnect_reason # Some(0)
  /\ sent = <<ConnectRequest>>

\* C17: a connect hook with a nonzero code leaves the connected flag and the
\* disconnect reason as they were and does not invoke on_connect, registered
\* or not.
C17_RefusedConnectHookChangesNothing ==
  (op.name = "_mqtt_connect" /\ op.args[1] # 0) =>
    /\ connected = pre.connected
    /\ disconnect_reason = pre.disconnect_reason
    /\ called = <<>>

\* A connect hook with a nonzero code has fired on a connected adapter with an
\* on_connect callback: the flag is still set.
C17_Witness ==
  /\ op.name = "_mqtt_connect"
  /\ op.args[1] # 0
  /\ pre.connected
  /\ connected
  /\ on_connect # None
  /\ called = <<>>

\* C18: with a topic format that is neither the structured nor the raw one,
\* subscribe() and publish() forward nothing and raise nothing, and the
\* message hook dispatches a message whose payload decodes exactly once to a
\* registered on_message, with the raw topic.
C18_UnknownFormatDropsRequests ==
  topic_fmt \notin {"adafruit_fmt", "rawmqtt_fmt"} =>
    /\ op.name \in {"subscribe", "publish"} => (sent = <<>> /\ raised = None)
    /\ (op.name = "_mqtt_message" /\ on_message # None /\ PayloadDecodable(op.args[2])) =>
         /\ called = <<OnMessageCall(op.args[1], PayloadText(op.args[2]))>>
         /\ raised = None

\* publish() on an adapter with an unknown topic format has forwarded nothing.
C18_Witness ==
  /\ op.name = "publish"
  /\ topic_fmt \notin {"adafruit_fmt", "rawmqtt_fmt"}
  /\ sent = <<>>
  /\ raised = None

====
